---- MODULE Spec2Model ----
(***************************************************************************)
(* Model of fc-backend/src/planes.rs: demo scene generation, flat-earth    *)
(* position propagation and pairwise conflict detection.                   *)
(*                                                                         *)
(* f64 is modelled as a decimal floating-point number with an eight-digit  *)
(* mantissa: a record [m, e] standing for m * 10^e, with m = 0 (and e = 0) *)
(* or 10^7 <= |m| < 10^8.  Every arithmetic operation rounds its result to *)
(* eight digits, as every f64 operation rounds to 53 bits.  sin, cos, sqrt *)
(* and atan2 are computed (argument reduction and series), never assumed.  *)
(***************************************************************************)
EXTENDS Integers, Sequences, FiniteSets, TLC

----------------------------------------------------------------------------
(* Integer helpers of the floating-point model.                            *)

Pow10(k) == <<1, 10, 100, 1000, 10000, 100000, 1000000, 10000000,
              100000000, 1000000000>>[k + 1]

MantMin == Pow10(7)
MantMax == Pow10(8)

IAbs(n) == IF n < 0 THEN -n ELSE n
ISign(n) == IF n < 0 THEN -1 ELSE 1

RECURSIVE NDigits(_)
NDigits(n) == IF n < 10 THEN 1 ELSE 1 + NDigits(n \div 10)

\* n >= 0 without its last k decimal digits, rounded half up.
RoundDrop(n, k) ==
    IF k = 0 THEN n
    ELSE (n \div Pow10(k)) + (IF (n % Pow10(k)) * 2 >= Pow10(k) THEN 1 ELSE 0)

\* The float nearest to n * 10^e, for any integer |n| < 2^31.
MkFloat(n, e) ==
    IF n = 0 THEN [m |-> 0, e |-> 0]
    ELSE LET a == IAbs(n)
             d == NDigits(a)
         IN  IF d <= 8
             THEN [m |-> ISign(n) * a * Pow10(8 - d), e |-> e - (8 - d)]
             ELSE LET r == RoundDrop(a, d - 8)
                  IN  IF r >= MantMax
                      THEN [m |-> ISign(n) * (r \div 10), e |-> e + (d - 8) + 1]
                      ELSE [m |-> ISign(n) * r, e |-> e + (d - 8)]

FZero == MkFloat(0, 0)
FOne == MkFloat(1, 0)
FInt(n) == MkFloat(n, 0)

FNeg(x) == [m |-> -x.m, e |-> x.e]
FAbs(x) == [m |-> IAbs(x.m), e |-> x.e]

\* x < y and x <= y on normalised floats.
FLt(x, y) ==
    IF x.m = 0 THEN y.m > 0
    ELSE IF y.m = 0 THEN x.m < 0
    ELSE IF (x.m < 0) # (y.m < 0) THEN x.m < 0
    ELSE IF x.m > 0
         THEN (x.e < y.e) \/ (x.e = y.e /\ x.m < y.m)
         ELSE (x.e > y.e) \/ (x.e = y.e /\ x.m < y.m)

FLe(x, y) == (x = y) \/ FLt(x, y)

\* x + y: the operand of smaller exponent is aligned to the other with one
\* guard digit, the sum is rounded to eight digits.
FAddOrdered(x, y) ==
    LET d == x.e - y.e
    IN  IF d > 9 THEN x
        ELSE MkFloat(x.m * 10 + ISign(y.m) * RoundDrop(IAbs(y.m) * 10, d),
                     x.e - 1)

FAdd(x, y) ==
    IF x.m = 0 THEN y
    ELSE IF y.m = 0 THEN x
    ELSE IF x.e >= y.e THEN FAddOrdered(x, y) ELSE FAddOrdered(y, x)

FSub(x, y) == FAdd(x, FNeg(y))

\* x * y: the 16-digit product of the mantissas by four-digit limbs, rounded.
FMul(x, y) ==
    IF x.m = 0 \/ y.m = 0 THEN FZero
    ELSE LET a == IAbs(x.m)
             b == IAbs(y.m)
             a1 == a \div 10000
             a0 == a % 10000
             b1 == b \div 10000
             b0 == b % 10000
             mid == a1 * b0 + a0 * b1 + ((a0 * b0) \div 10000)
             hi == a1 * b1 + (mid \div 10000)
             lo == mid % 10000
             s == ISign(x.m) * ISign(y.m)
         IN  IF hi >= MantMin
             THEN MkFloat(s * (hi + (IF lo >= 5000 THEN 1 ELSE 0)),
                          x.e + y.e + 8)
             ELSE MkFloat(s * (hi * 10 + RoundDrop(lo, 3)), x.e + y.e + 7)

\* k more quotient digits of r / b by long division.
RECURSIVE DivDigits(_, _, _, _)
DivDigits(r, b, k, acc) ==
    IF k = 0 THEN acc
    ELSE DivDigits((r * 10) % b, b, k - 1, acc * 10 + ((r * 10) \div b))

\* x / y (y # 0): nine quotient digits by long division, rounded to eight.
FDiv(x, y) ==
    IF x.m = 0 THEN FZero
    ELSE LET a == IAbs(x.m)
             b == IAbs(y.m)
             s == ISign(x.m) * ISign(y.m)
             num == IF a >= b THEN a ELSE a * 10
             sh == IF a >= b THEN 0 ELSE 1
             q == DivDigits(num % b, b, 8, num \div b)
         IN  MkFloat(s * q, x.e - y.e - 8 - sh)

RECURSIVE ISqrtIter(_, _)
ISqrtIter(n, g) ==
    LET h == (g + n \div g) \div 2
    IN  IF h >= g THEN g ELSE ISqrtIter(n, h)

\* floor(sqrt(n)) for n >= 1.
ISqrt(n) == ISqrtIter(n, 46340)

\* The square root of x > 0 to four digits: the integer square root of the
\* mantissa, the exponent made even.
SqrtGuess(x) ==
    LET odd == (x.e % 2) # 0
        mm == IF odd THEN x.m * 10 ELSE x.m
        ee == IF odd THEN x.e - 1 ELSE x.e
    IN  MkFloat(ISqrt(mm), ee \div 2)

\* One Newton step for the square root of x from the estimate s.
NewtonStep(x, s) == FAdd(s, FMul(MkFloat(5, -1), FSub(FDiv(x, s), s)))

\* sqrt(x) for x >= 0: two Newton steps from the four-digit estimate.
FSqrt(x) ==
    IF x.m <= 0 THEN FZero
    ELSE NewtonStep(x, NewtonStep(x, SqrtGuess(x)))

\* The integer nearest to x (|x| < 10^9), half away from zero.
FRound(x) ==
    IF x.m = 0 THEN 0
    ELSE IF x.e >= 0 THEN x.m * Pow10(x.e)
    ELSE IF x.e < -8 THEN 0
    ELSE ISign(x.m) * RoundDrop(IAbs(x.m), -x.e)

----------------------------------------------------------------------------
(* Elementary functions of the floating-point model.                       *)

\* std::f64::consts::PI and the factor of f64::to_radians, at eight digits.
PI == MkFloat(31415927, -7)
RADS_PER_DEG == MkFloat(17453293, -9)
\* pi/2 in two parts (head and tail), for an argument reduction that keeps
\* the low digits of the reduced argument, as libm's does.
PIO2_HI == MkFloat(15707963, -7)
PIO2_LO == MkFloat(26794897, -15)
PIO4 == MkFloat(78539816, -8)
TAN_PIO8 == MkFloat(41421356, -8)

\* f64::to_radians
to_radians(x) == FMul(x, RADS_PER_DEG)

\* term - term*z/((n+1)(n+2)) + ... : the alternating Taylor series of sin
\* (term = r, n = 1) and cos (term = 1, n = 0) in z = r^2, up to degree last.
RECURSIVE TaylorSum(_, _, _, _, _)
TaylorSum(term, z, n, last, acc) ==
    IF n > last THEN acc
    ELSE TaylorSum(FNeg(FDiv(FMul(term, z), FInt((n + 1) * (n + 2)))),
                   z, n + 2, last, FAdd(acc, term))

SinKernel(r) == TaylorSum(r, FMul(r, r), 1, 11, FZero)
CosKernel(r) == TaylorSum(FOne, FMul(r, r), 0, 12, FZero)

\* The quadrant of x (the multiple of pi/2 nearest to it) and x reduced by it.
Quadrant(x) == FRound(FDiv(x, PIO2_HI))
ReducedBy(x, n) == FSub(FSub(x, FMul(n, PIO2_HI)), FMul(n, PIO2_LO))
Reduced(x) == ReducedBy(x, FInt(Quadrant(x)))

\* sin of r + q * pi/2, for q in 0..3 and |r| <= pi/4.
SinAt(q, r) ==
    CASE q = 0 -> SinKernel(r)
      [] q = 1 -> CosKernel(r)
      [] q = 2 -> FNeg(SinKernel(r))
      [] OTHER -> FNeg(CosKernel(r))

\* f64::sin
FSin(x) == SinAt(Quadrant(x) % 4, Reduced(x))

\* f64::cos: sin a quadrant further on.
FCos(x) == SinAt((Quadrant(x) + 1) % 4, Reduced(x))

\* pow/n - pow*z/(n+2) + ... : the series of atan in z = t^2.
RECURSIVE AtanSum(_, _, _, _, _)
AtanSum(pow, z, n, last, acc) ==
    IF n > last THEN acc
    ELSE AtanSum(FNeg(FMul(pow, z)), z, n + 2, last,
                 FAdd(acc, FDiv(pow, FInt(n))))

AtanSmall(t) == AtanSum(t, FMul(t, t), 1, 19, FZero)

\* atan(t) for 0 <= t <= 1: above tan(pi/8), pi/4 + atan((t-1)/(t+1)).
AtanUnit(t) ==
    IF FLt(TAN_PIO8, t)
    THEN FAdd(PIO4, AtanSmall(FDiv(FSub(t, FOne), FAdd(t, FOne))))
    ELSE AtanSmall(t)

\* atan(t) for t >= 0: above 1, pi/2 - atan(1/t).
AtanPos(t) ==
    IF FLt(FOne, t)
    THEN FAdd(FSub(PIO2_HI, AtanUnit(FDiv(FOne, t))), PIO2_LO)
    ELSE AtanUnit(t)

\* atan(t) = sign(t) * atan(|t|)
FAtan(t) == IF t.m < 0 THEN FNeg(AtanPos(FAbs(t))) ELSE AtanPos(FAbs(t))

\* atan2 from atan(y/x), by the signs of x and y.
Atan2At(at, y, x) ==
    IF x.m > 0 THEN at
    ELSE IF y.m >= 0 THEN FAdd(at, PI) ELSE FSub(at, PI)

\* f64::atan2(y, x), called as y.atan2(x)
FAtan2(y, x) ==
    IF x.m = 0
    THEN (IF y.m > 0 THEN PIO2_HI ELSE IF y.m < 0 THEN FNeg(PIO2_HI) ELSE FZero)
    ELSE Atan2At(FAtan(FDiv(y, x)), y, x)

\* f64::powi(2)
FSquare(x) == FMul(x, x)

----------------------------------------------------------------------------
(* planes.rs: constants, values and the pure parts of the operations.      *)

\* A decimal literal: Lit(48288158, -6) is 48.288158.
Lit(n, e) == MkFloat(n, e)

NUM_DEMO_PLANES == 20
LNZ_LAT == Lit(48238575, -6)
LNZ_LNG == Lit(14191473, -6)
\* The Earth's radius in kilometres, taken for the one in nautical miles.
EarthRadiusKm == Lit(6371, 0)
EARTH_RADIUS_NM == Lit(3440065, -3)
ALERT_DISTANCE_NM == Lit(5, 0)
ALERT_ALTITUDE_DIFF_FT == Lit(1000, 0)

\* A String is the sequence of its characters.
Str_TEST001 == <<"T", "E", "S", "T", "0", "0", "1">>
Str_TEST002 == <<"T", "E", "S", "T", "0", "0", "2">>
Str_TEST == <<"T", "E", "S", "T">>

\* str::starts_with
starts_with(s, prefix) ==
    /\ Len(s) >= Len(prefix)
    /\ SubSeq(s, 1, Len(prefix)) = prefix

\* struct Airplane
Airplane(cs, ty, lat, lng, alt, spd, hdg) ==
    [callsign |-> cs, aircraft_type |-> ty, latitude |-> lat,
     longitude |-> lng, altitude_ft |-> alt, speed_kn |-> spd,
     heading_deg |-> hdg]

\* struct Alert
Alert(c1, c2, dist, diff) ==
    [plane1_callsign |-> c1, plane2_callsign |-> c2, distance_nm |-> dist,
     altitude_diff_ft |-> diff]

\* Option<T>: None is the empty sequence, Some(v) the sequence of v alone.
None == <<>>
Some(v) == <<v>>

\* x wrapped into [-180, 180).
Wrap180(x) ==
    IF FLe(Lit(180, 0), x) THEN FSub(x, Lit(360, 0))
    ELSE IF FLt(x, Lit(-180, 0)) THEN FAdd(x, Lit(360, 0)) ELSE x

\* MovedPlane with the new longitude wrapped into [-180, 180).
MovedPlaneWrapped(plane, distance_traveled_nm, heading_rad) ==
    LET lat_offset == FMul(FDiv(distance_traveled_nm, Lit(60, 0)),
                           FCos(heading_rad))
        lng_offset == FDiv(FMul(FDiv(distance_traveled_nm, Lit(60, 0)),
                                FSin(heading_rad)),
                           FCos(to_radians(plane.latitude)))
    IN  Airplane(plane.callsign, plane.aircraft_type,
                 FAdd(plane.latitude, lat_offset),
                 Wrap180(FAdd(plane.longitude, lng_offset)),
                 plane.altitude_ft, plane.speed_kn, plane.heading_deg)

\* The new Airplane of the closure of calculate_airplane_positions, from
\* its first two lets.
MovedPlane(plane, distance_traveled_nm, heading_rad) ==
    LET lat_offset == FMul(FDiv(distance_traveled_nm, Lit(60, 0)),
                           FCos(heading_rad))
        lng_offset == FDiv(FMul(FDiv(distance_traveled_nm, Lit(60, 0)),
                                FSin(heading_rad)),
                           FCos(to_radians(plane.latitude)))
    IN  Airplane(plane.callsign, plane.aircraft_type,
                 FAdd(plane.latitude, lat_offset),
                 FAdd(plane.longitude, lng_offset),
                 plane.altitude_ft, plane.speed_kn, plane.heading_deg)

\* MovePlane with speed and heading of the new Airplane exchanged.
MovePlaneSwapped(plane, elapsed) ==
    LET moved == MovedPlane(plane,
                            FDiv(FMul(plane.speed_kn, elapsed), Lit(3600, 0)),
                            to_radians(plane.heading_deg))
    IN  [moved EXCEPT !.speed_kn = plane.heading_deg,
                      !.heading_deg = plane.speed_kn]

\* The closure of calculate_airplane_positions: one aircraft moved.
MovePlane(plane, elapsed) ==
    MovedPlane(plane,
               FDiv(FMul(plane.speed_kn, elapsed), Lit(3600, 0)),
               to_radians(plane.heading_deg))

\* let c = 2.0 * a.sqrt().atan2((1.0 - a).sqrt())
CentralAngle(a) == FMul(Lit(2, 0), FAtan2(FSqrt(a), FSqrt(FSub(FOne, a))))

haversine_distance_nm(lat1, lng1, lat2, lng2) ==
    LET lat1_rad == to_radians(lat1)
        lat2_rad == to_radians(lat2)
        delta_lat == to_radians(FSub(lat2, lat1))
        delta_lng == to_radians(FSub(lng2, lng1))
        a == FAdd(FSquare(FSin(FDiv(delta_lat, Lit(2, 0)))),
                  FMul(FMul(FCos(lat1_rad), FCos(lat2_rad)),
                       FSquare(FSin(FDiv(delta_lng, Lit(2, 0))))))
    IN  FMul(EARTH_RADIUS_NM, CentralAngle(a))

\* AlertIf with the distance test strict: an aircraft at exactly 5.0 nm
\* raises no alert.
AlertIfStrictDistance(plane1, plane2, distance_nm, altitude_diff_ft) ==
    IF FLt(distance_nm, ALERT_DISTANCE_NM)
       /\ FLt(altitude_diff_ft, ALERT_ALTITUDE_DIFF_FT)
    THEN Some(Alert(plane1.callsign, plane2.callsign, distance_nm,
                    altitude_diff_ft))
    ELSE None

\* The if of check_alert_between_planes, from its two lets.
AlertIf(plane1, plane2, distance_nm, altitude_diff_ft) ==
    IF FLe(distance_nm, ALERT_DISTANCE_NM)
       /\ FLt(altitude_diff_ft, ALERT_ALTITUDE_DIFF_FT)
    THEN Some(Alert(plane1.callsign, plane2.callsign, distance_nm,
                    altitude_diff_ft))
    ELSE None

check_alert_between_planes(plane1, plane2) ==
    AlertIf(plane1, plane2,
            haversine_distance_nm(plane1.latitude, plane1.longitude,
                                  plane2.latitude, plane2.longitude),
            FAbs(FSub(plane1.altitude_ft, plane2.altitude_ft)))

----------------------------------------------------------------------------
(* The random source of generate_demo_airplanes.                           *)

aircraft_types ==
    <<"Boeing 737-800", "Airbus A320", "Boeing 777-200", "Airbus A319",
      "Boeing 787-8", "Airbus A330", "Embraer E190", "Boeing 757-200",
      "Airbus A321", "ATR 72-600", "Bombardier CRJ900", "Boeing 767-300">>

UpperCase ==
    <<"A", "B", "C", "D", "E", "F", "G", "H", "I", "J", "K", "L", "M",
      "N", "O", "P", "Q", "R", "S", "T", "U", "V", "W", "X", "Y", "Z">>
DigitChars == <<"0", "1", "2", "3", "4", "5", "6", "7", "8", "9">>

\* (b'A' + r) as char, for r drawn from 0..26
LetterChar(r) == UpperCase[r + 1]
\* (b'0' + r) as char, for r drawn from 0..10
DigitChar(r) == DigitChars[r + 1]

\* One outcome of all the draws of one loop iteration: three letter draws,
\* three digit draws, and the draws of type, position, altitude, speed and
\* heading, each inside the range the code draws from.  Outcome(c), c >= 0,
\* enumerates outcomes with pairwise different callsigns for c < 26;
\* Outcome(2) draws the letters T, E, S.
Outcome(c) ==
    [letters |-> <<(9 + 5 * c) % 26, (24 + 3 * c) % 26, (16 + c) % 26>>,
     numbers |-> <<0, (c \div 10) % 10, c % 10>>,
     distance_km |-> FInt(10 + ((17 * c) % 90)),
     bearing_rad |-> Lit(3 * (c % 21), -1),
     type_index |-> c % Len(aircraft_types),
     altitude_ft |-> FInt(15000 + 1000 * (c % 20)),
     speed_kn |-> FInt(80 + 19 * (c % 20)),
     heading_deg |-> FInt(18 * (c % 20))]

\* The outcomes the model lets the random source produce in the iteration
\* that generates aircraft number n (0-based): a fresh one, and the one the
\* previous iteration could draw, so that a draw can collide.
RngOutcomes(n) == {Outcome(n), Outcome(n - 1)}

\* format!("{}{}", letters, numbers)
RandomCallsign(o) ==
    <<LetterChar(o.letters[1]), LetterChar(o.letters[2]),
      LetterChar(o.letters[3])>>
    \o <<DigitChar(o.numbers[1]), DigitChar(o.numbers[2]),
         DigitChar(o.numbers[3])>>

TestPlane1 ==
    Airplane(Str_TEST001, "Boeing 737-800", Lit(48288158, -6),
             Lit(14191473, -6), Lit(30000, 0), Lit(120, 0), Lit(180, 0))
TestPlane2 ==
    Airplane(Str_TEST002, "Airbus A320", Lit(48188992, -6),
             Lit(14191473, -6), Lit(29500, 0), Lit(120, 0), Lit(0, 0))

\* The aircraft pushed for callsign cs under the draws of outcome o.
RandomPlane(cs, o) ==
    LET km_per_deg == Lit(11132, -2)
        lat_offset == FMul(FDiv(o.distance_km, km_per_deg),
                           FCos(o.bearing_rad))
        lng_offset == FMul(FDiv(o.distance_km,
                                FMul(km_per_deg, FCos(to_radians(LNZ_LAT)))),
                           FSin(o.bearing_rad))
    IN  Airplane(cs, aircraft_types[o.type_index + 1],
                 FAdd(LNZ_LAT, lat_offset), FAdd(LNZ_LNG, lng_offset),
                 o.altitude_ft, o.speed_kn, o.heading_deg)

----------------------------------------------------------------------------
(* Bounds and inputs of the model.                                         *)

\* Largest population handed to the operations.
MaxPlanes == 3
\* Calls of calculate_airplane_positions and check_all_alerts in one run.
MaxOps == 3
\* Colliding callsign draws in one run of generate_demo_airplanes.
MaxRetries == 2

\* The aircraft populations are drawn from: the three aircraft of
\* test_alert_detection and one about to cross the 180th meridian.
PlanePool ==
    {Airplane(<<"T", "E", "S", "T", "1">>, "Boeing 737", Lit(48250000, -6),
              Lit(14191473, -6), Lit(30000, 0), Lit(120, 0), Lit(0, 0)),
     Airplane(<<"T", "E", "S", "T", "2">>, "Airbus A320", Lit(48265000, -6),
              Lit(14191473, -6), Lit(30500, 0), Lit(120, 0), Lit(180, 0)),
     Airplane(<<"T", "E", "S", "T", "3">>, "Boeing 777", Lit(48350000, -6),
              Lit(14191473, -6), Lit(30500, 0), Lit(120, 0), Lit(90, 0)),
     Airplane(<<"E", "A", "S", "T", "4">>, "Airbus A330", Lit(48250000, -6),
              Lit(1799, -1), Lit(30000, 0), Lit(450, 0), Lit(90, 0))}

\* Populations: sequences of up to MaxPlanes different aircraft of the pool.
Populations ==
    UNION {{s \in [1..n -> PlanePool] :
                \A a, b \in 1..n : a # b => s[a] # s[b]} : n \in 0..MaxPlanes}

\* The elapsed_seconds the caller passes.
ElapsedSet == {Lit(0, 0), Lit(60, 0)}

----------------------------------------------------------------------------
(* State.                                                                  *)

VARIABLES
    pc,               \* where the run is: the operation in progress, or idle
    planes,           \* the caller's current snapshot / generate's Vec
    used_callsigns,   \* generate_demo_airplanes: the HashSet
    g,                \* generate_demo_airplanes: the loop counter of 2..N
    draws,            \* callsigns drawn so far (history)
    retries,          \* draws that collided so far (history)
    elapsed_seconds,  \* calculate_airplane_positions: its argument
    out,              \* calculate_airplane_positions: the Vec collected
    k,                \* calculate_airplane_positions: aircraft mapped so far
    i,                \* check_all_alerts: outer loop index
    j,                \* check_all_alerts: inner loop index
    alerts,           \* check_all_alerts: its Vec<Alert>
    checked,          \* the pairs handed to check_alert_between_planes in
                      \* this scan, in order (history)
    planes0,          \* the population the run started with (history)
    scans,            \* every finished scan: snapshot and alerts (history)
    ops,              \* operations called so far
    args,             \* the arguments of a single call of a pure function
    ret               \* its Option result

vars == <<pc, planes, used_callsigns, g, draws, retries, elapsed_seconds, out,
          k, i, j, alerts, checked, planes0, scans, ops, args, ret>>

genVars == <<used_callsigns, g, draws, retries>>
advVars == <<elapsed_seconds, out, k>>
scanVars == <<i, j, alerts, checked>>
callVars == <<args, ret>>

\* Everything but pc, planes and planes0 at rest.
Rest ==
    /\ used_callsigns = {} /\ g = 0 /\ draws = 0 /\ retries = 0
    /\ elapsed_seconds = FZero /\ out = <<>> /\ k = 0
    /\ i = 0 /\ j = 0 /\ alerts = <<>> /\ checked = <<>>
    /\ scans = <<>> /\ ops = 0
    /\ args = <<>> /\ ret = None

\* generate_demo_airplanes is entered: planes = Vec::new().
InitGenerate ==
    /\ pc = "generate" /\ planes = <<>> /\ planes0 = <<>> /\ Rest

\* A caller holds a snapshot.
InitPopulation ==
    /\ pc = "idle" /\ planes \in Populations /\ planes0 = planes /\ Rest

Init == InitGenerate \/ InitPopulation

----------------------------------------------------------------------------
(* generate_demo_airplanes                                                 *)

\* The collision test left out: every drawn callsign is taken as new.
IsUnusedUnchecked(callsign, used) == TRUE

\* !used_callsigns.contains(&callsign)
IsUnused(callsign, used) == callsign \notin used

\* The two test planes are pushed, their callsigns inserted.
GenFixed ==
    /\ pc = "generate"
    /\ planes' = <<TestPlane1, TestPlane2>>
    /\ used_callsigns' = {Str_TEST001, Str_TEST002}
    /\ g' = 2
    /\ pc' = "gen_loop"
    /\ UNCHANGED <<draws, retries, advVars, scanVars, planes0, scans, ops,
                   callVars>>

\* One pass of the inner loop whose callsign is taken: drawn again.
GenCollide ==
    /\ pc = "gen_loop" /\ g < NUM_DEMO_PLANES
    /\ retries < MaxRetries
    /\ \E o \in RngOutcomes(g) : ~IsUnused(RandomCallsign(o), used_callsigns)
    /\ draws' = draws + 1
    /\ retries' = retries + 1
    /\ UNCHANGED <<pc, planes, used_callsigns, g, advVars, scanVars, planes0,
                   scans, ops, callVars>>

\* One pass of the inner loop whose callsign is new, and the rest of the
\* iteration: the callsign is inserted, the aircraft pushed.
GenPush ==
    /\ pc = "gen_loop" /\ g < NUM_DEMO_PLANES
    /\ \E o \in RngOutcomes(g) :
          LET callsign == RandomCallsign(o)
          IN  /\ IsUnused(callsign, used_callsigns)
              /\ used_callsigns' = used_callsigns \cup {callsign}
              /\ planes' = Append(planes, RandomPlane(callsign, o))
    /\ g' = g + 1
    /\ draws' = draws + 1
    /\ UNCHANGED <<pc, retries, advVars, scanVars, planes0, scans, ops,
                   callVars>>

\* The range 2..NUM_DEMO_PLANES is exhausted: planes is returned.
GenReturn ==
    /\ pc = "gen_loop" /\ g >= NUM_DEMO_PLANES
    /\ pc' = "generated"
    /\ UNCHANGED <<planes, genVars, advVars, scanVars, planes0, scans, ops,
                   callVars>>

----------------------------------------------------------------------------
(* calculate_airplane_positions                                            *)

\* The caller calls calculate_airplane_positions(&planes, e).
AdvanceCall(e) ==
    /\ pc = "idle"
    /\ elapsed_seconds' = e
    /\ out' = <<>>
    /\ k' = 0
    /\ ops' = ops + 1
    /\ pc' = "advance"
    /\ UNCHANGED <<planes, genVars, scanVars, planes0, scans, callVars>>

AdvanceStart == ops < MaxOps /\ \E e \in ElapsedSet : AdvanceCall(e)

\* planes.iter().map(..): the next aircraft is mapped.
AdvanceStep ==
    /\ pc = "advance" /\ k < Len(planes)
    /\ out' = Append(out, MovePlane(planes[k + 1], elapsed_seconds))
    /\ k' = k + 1
    /\ UNCHANGED <<pc, planes, genVars, elapsed_seconds, scanVars, planes0,
                   scans, ops, callVars>>

\* .collect(): the new Vec is returned and becomes the caller's snapshot.
AdvanceReturn ==
    /\ pc = "advance" /\ k >= Len(planes)
    /\ planes' = out
    /\ pc' = "idle"
    /\ UNCHANGED <<genVars, advVars, scanVars, planes0, scans, ops, callVars>>

----------------------------------------------------------------------------
(* check_all_alerts                                                        *)

\* The inner range started at i: an aircraft is paired with itself.
InnerStartSelf(ii) == ii

\* The inner range started at 0: every ordered pair is checked.
InnerStartZero(ii) == 0

\* The start of the inner range (i + 1)..planes.len()
InnerStart(ii) == ii + 1

\* The alerts of the previous call kept.
FreshAlertsKept(old) == old

\* let mut alerts = Vec::new(), on entry
FreshAlerts(old) == <<>>

\* PushSome that inserts at the front.
PushSomeFront(vec, found) == IF found # None THEN <<found[1]>> \o vec ELSE vec

\* if let Some(alert) = found { alerts.push(alert) }
PushSome(vec, found) == IF found # None THEN Append(vec, found[1]) ELSE vec

\* The caller calls check_all_alerts(&planes).
ScanCall ==
    /\ pc = "idle"
    /\ alerts' = FreshAlerts(alerts)
    /\ checked' = <<>>
    /\ i' = 0
    /\ j' = InnerStart(0)
    /\ ops' = ops + 1
    /\ pc' = "scan"
    /\ UNCHANGED <<planes, genVars, advVars, planes0, scans, callVars>>

ScanStart == ops < MaxOps /\ ScanCall

\* The body of the inner loop for the pair (i, j).
ScanPair ==
    /\ pc = "scan" /\ i < Len(planes) /\ j < Len(planes)
    /\ alerts' = PushSome(alerts, check_alert_between_planes(planes[i + 1],
                                                             planes[j + 1]))
    /\ checked' = Append(checked, <<i, j>>)
    /\ j' = j + 1
    /\ UNCHANGED <<pc, planes, genVars, advVars, i, planes0, scans, ops,
                   callVars>>

\* The inner range is exhausted: the outer loop moves on.
ScanNextRow ==
    /\ pc = "scan" /\ i < Len(planes) /\ j >= Len(planes)
    /\ i' = i + 1
    /\ j' = InnerStart(i + 1)
    /\ UNCHANGED <<pc, planes, genVars, advVars, alerts, checked, planes0,
                   scans, ops, callVars>>

\* The outer range is exhausted: alerts is returned.
ScanReturn ==
    /\ pc = "scan" /\ i >= Len(planes)
    /\ scans' = Append(scans, [snapshot |-> planes, alerts |-> alerts])
    /\ pc' = "idle"
    /\ UNCHANGED <<planes, genVars, advVars, scanVars, planes0, ops, callVars>>

----------------------------------------------------------------------------

Next ==
    \/ GenFixed \/ GenCollide \/ GenPush \/ GenReturn
    \/ AdvanceStart \/ AdvanceStep \/ AdvanceReturn
    \/ ScanStart \/ ScanPair \/ ScanNextRow \/ ScanReturn

Spec == Init /\ [][Next]_vars

----------------------------------------------------------------------------
(* Single calls of the pure functions, on inputs drawn from bounded sets.  *)

\* Aircraft for check_alert_between_planes: those of test_alert_detection,
\* and aircraft at the thresholds: 5.0 nm and just above it from the one at
\* (0, 0), and 1000 ft and just under it from it.
PairPool ==
    PlanePool \cup
    {Airplane(<<"Q", "0">>, "ATR 72-600", Lit(0, 0), Lit(0, 0),
              Lit(30000, 0), Lit(200, 0), Lit(0, 0)),
     Airplane(<<"Q", "1">>, "ATR 72-600", Lit(83277173, -9), Lit(0, 0),
              Lit(30999, 0), Lit(200, 0), Lit(0, 0)),
     Airplane(<<"Q", "2">>, "ATR 72-600", Lit(83277176, -9), Lit(0, 0),
              Lit(30000, 0), Lit(200, 0), Lit(0, 0)),
     Airplane(<<"Q", "3">>, "ATR 72-600", Lit(1, -2), Lit(0, 0),
              Lit(31000, 0), Lit(200, 0), Lit(0, 0)),
     Airplane(<<"Q", "4">>, "ATR 72-600", Lit(-1, -2), Lit(0, 0),
              Lit(29000, 0), Lit(200, 0), Lit(0, 0))}

\* Coordinates for haversine_distance_nm: a first point on a grid, and a
\* second one on its meridian, north of it by one of the offsets.
LatGrid == {Lit(-80, 0), Lit(-45, 0), Lit(0, 0), Lit(30, 0), Lit(48250000, -6),
            Lit(48238575, -6), Lit(60, 0), Lit(89, 0)}
LngGrid == {Lit(14191473, -6), Lit(-120, 0), Lit(1799, -1)}
LatOffsets == {Lit(1376, -5), Lit(15, -3)}

PureCalls ==
    {[fn |-> "check_alert_between_planes", plane1 |-> a, plane2 |-> b] :
        a \in PairPool, b \in PairPool}
    \cup
    {[fn |-> "haversine_distance_nm", lat1 |-> lat, lng1 |-> lng,
      lat2 |-> FAdd(lat, d), lng2 |-> lng] :
        lat \in LatGrid, lng \in LngGrid, d \in LatOffsets}

InitPure ==
    /\ pc = "call" /\ planes = <<>> /\ planes0 = <<>>
    /\ used_callsigns = {} /\ g = 0 /\ draws = 0 /\ retries = 0
    /\ elapsed_seconds = FZero /\ out = <<>> /\ k = 0
    /\ i = 0 /\ j = 0 /\ alerts = <<>> /\ checked = <<>>
    /\ scans = <<>> /\ ops = 0
    /\ args \in PureCalls /\ ret = None

CallCheckAlert ==
    /\ pc = "call" /\ args.fn = "check_alert_between_planes"
    /\ ret' = check_alert_between_planes(args.plane1, args.plane2)
    /\ pc' = "returned"
    /\ UNCHANGED <<planes, genVars, advVars, scanVars, planes0, scans, ops,
                   args>>

CallHaversine ==
    /\ pc = "call" /\ args.fn = "haversine_distance_nm"
    /\ ret' = Some(haversine_distance_nm(args.lat1, args.lng1, args.lat2,
                                         args.lng2))
    /\ pc' = "returned"
    /\ UNCHANGED <<planes, genVars, advVars, scanVars, planes0, scans, ops,
                   args>>

NextPure == CallCheckAlert \/ CallHaversine

SpecPure == InitPure /\ [][NextPure]_vars

----------------------------------------------------------------------------
(* The tick loop of a caller over the two fixed aircraft.                  *)

\* The first two aircraft of generate_demo_airplanes, the fixed ones; the
\* random ones play no part in the alerts between these two.
FixedPlanes == <<TestPlane1, TestPlane2>>

\* The tick lengths of a caller, in seconds: one run ticks every second,
\* one every 2401 seconds.
TickLengths == {Lit(1, 0), Lit(2401, 0)}

\* Scans and ticks in one run of the tick loop.
MaxFixedOps == 350

InitFixed ==
    /\ pc = "idle" /\ planes = FixedPlanes /\ planes0 = planes
    /\ used_callsigns = {} /\ g = 0 /\ draws = 0 /\ retries = 0
    /\ elapsed_seconds \in TickLengths /\ out = <<>> /\ k = 0
    /\ i = 0 /\ j = 0 /\ alerts = <<>> /\ checked = <<>>
    /\ scans = <<>> /\ ops = 0
    /\ args = <<>> /\ ret = None

\* The snapshot is scanned, then advanced by one tick, then scanned, ...
TickScan == ops < MaxFixedOps /\ ops % 2 = 0 /\ ScanCall
TickAdvance == ops < MaxFixedOps /\ ops % 2 = 1 /\ AdvanceCall(elapsed_seconds)

NextFixed ==
    \/ TickScan \/ ScanPair \/ ScanNextRow \/ ScanReturn
    \/ TickAdvance \/ AdvanceStep \/ AdvanceReturn

SpecFixed == InitFixed /\ [][NextFixed]_vars

----------------------------------------------------------------------------
(* Properties.                                                             *)

InSim == pc \in {"idle", "advance", "scan"}

\* The great-circle distance and the altitude difference of two aircraft.
DistanceOf(a, b) ==
    haversine_distance_nm(a.latitude, a.longitude, b.latitude, b.longitude)
AltDiffOf(a, b) == FAbs(FSub(a.altitude_ft, b.altitude_ft))

\* C1: check_alert_between_planes(a, b) returns an alert if and only if the
\* great-circle distance of a and b is <= 5.0 nm and their altitude
\* difference is < 1000.0 ft; the alert names a, then b, and carries that
\* distance and that difference.
C1_AlertIffWithinThresholds ==
    (pc = "returned" /\ args.fn = "check_alert_between_planes") =>
        LET a == args.plane1
            b == args.plane2
        IN  /\ (ret # None) <=>
                   (/\ FLe(DistanceOf(a, b), Lit(5, 0))
                    /\ FLt(AltDiffOf(a, b), Lit(1000, 0)))
            /\ (ret # None) =>
                   (/\ Len(ret) = 1
                    /\ ret[1].plane1_callsign = a.callsign
                    /\ ret[1].plane2_callsign = b.callsign
                    /\ ret[1].distance_nm = DistanceOf(a, b)
                    /\ ret[1].altitude_diff_ft = AltDiffOf(a, b))

\* An alert was returned for two aircraft exactly 5.0 nm apart.
C1_Witness ==
    /\ pc = "returned" /\ args.fn = "check_alert_between_planes"
    /\ ret # None
    /\ ret[1].distance_nm = Lit(5, 0)
    /\ ret[1].altitude_diff_ft = Lit(999, 0)

\* The pairs (a, b), 0 <= a < b < n, and their order: by a, then by b.
PairsOf(n) == {p \in (0..(n - 1)) \X (0..(n - 1)) : p[1] < p[2]}
PairBefore(p, q) == p[1] < q[1] \/ (p[1] = q[1] /\ p[2] < q[2])
PairsInOrder(n) ==
    [r \in 1..Cardinality(PairsOf(n)) |->
        CHOOSE p \in PairsOf(n) :
            Cardinality({q \in PairsOf(n) : PairBefore(q, p)}) = r - 1]

\* The alerts a scan of ps owes: one for each pair, in order, whose check
\* gives an alert, naming the aircraft of lower index first.
Qualifies(ps, p) ==
    check_alert_between_planes(ps[p[1] + 1], ps[p[2] + 1]) # None
OwedAlerts(ps) ==
    LET sel == SelectSeq(PairsInOrder(Len(ps)), LAMBDA p : Qualifies(ps, p))
    IN  [x \in 1..Len(sel) |->
            Alert(ps[sel[x][1] + 1].callsign, ps[sel[x][2] + 1].callsign,
                  DistanceOf(ps[sel[x][1] + 1], ps[sel[x][2] + 1]),
                  AltDiffOf(ps[sel[x][1] + 1], ps[sel[x][2] + 1]))]

\* C2: check_all_alerts checks every pair (i, j), i < j, exactly once, in
\* increasing i and then j, and never a pair (i, i); what it returns is one
\* alert for each pair whose check is an alert, in that order, plane1 being
\* the aircraft of lower index.
C2_EveryPairOnceInOrder ==
    /\ pc = "scan" =>
          /\ Len(checked) <= Cardinality(PairsOf(Len(planes)))
          /\ checked = SubSeq(PairsInOrder(Len(planes)), 1, Len(checked))
    /\ (pc = "scan" /\ i >= Len(planes)) =>
          /\ checked = PairsInOrder(Len(planes))
          /\ alerts = OwedAlerts(planes)

\* A scan of three aircraft is over: two of the three pairs gave an alert.
C2_Witness ==
    /\ pc = "scan" /\ i >= Len(planes)
    /\ Len(planes) = 3
    /\ Len(alerts) = 2
    /\ alerts[1].plane2_callsign # alerts[2].plane2_callsign

CallsignsOf(ps) == {ps[x].callsign : x \in 1..Len(ps)}

\* C3: check_all_alerts over n aircraft returns at most n(n-1)/2 alerts,
\* each naming two different callsigns of the population, and never both
\* (A, B) and (B, A).
C3_AlertsBoundedDistinctExisting ==
    InSim =>
        /\ 2 * Len(alerts) <= Len(planes) * (Len(planes) - 1)
        /\ \A x \in 1..Len(alerts) :
              /\ alerts[x].plane1_callsign # alerts[x].plane2_callsign
              /\ alerts[x].plane1_callsign \in CallsignsOf(planes)
              /\ alerts[x].plane2_callsign \in CallsignsOf(planes)
        /\ \A x, y \in 1..Len(alerts) :
              ~(/\ alerts[x].plane1_callsign = alerts[y].plane2_callsign
                /\ alerts[x].plane2_callsign = alerts[y].plane1_callsign)

\* The scan of a population of three aircraft returned one alert.
C3_Witness ==
    /\ pc = "idle" /\ Len(scans) = 1
    /\ Len(planes) = 3
    /\ Len(alerts) = 1

\* a and b agree in everything but latitude and longitude.
SameButPosition(a, b) ==
    /\ a.callsign = b.callsign
    /\ a.aircraft_type = b.aircraft_type
    /\ a.altitude_ft = b.altitude_ft
    /\ a.speed_kn = b.speed_kn
    /\ a.heading_deg = b.heading_deg

\* C4: calculate_airplane_positions returns as many aircraft as it is given,
\* in the same order, each with callsign, type, altitude, speed and heading
\* unchanged, after any number of calls; with elapsed_seconds = 0 it returns
\* its input.
C4_OnlyPositionChanges ==
    InSim =>
        /\ Len(planes) = Len(planes0)
        /\ \A x \in 1..Len(planes) : SameButPosition(planes[x], planes0[x])
        /\ \A x, y \in 1..Len(planes) :
              x # y => planes[x].callsign # planes[y].callsign
        /\ pc = "advance" =>
              /\ Len(out) = k /\ k <= Len(planes)
              /\ \A x \in 1..Len(out) : SameButPosition(out[x], planes[x])
              /\ elapsed_seconds = FZero =>
                    \A x \in 1..Len(out) : out[x] = planes[x]

\* A second call has mapped all three aircraft, and moved them.
C4_Witness ==
    /\ pc = "advance" /\ ops = 2
    /\ planes # planes0
    /\ k = Len(planes) /\ Len(out) = 3
    /\ \A x \in 1..3 : out[x].latitude # planes[x].latitude
                       \/ out[x].longitude # planes[x].longitude

\* C5: generate_demo_airplanes returns exactly 20 aircraft, TEST001 and
\* TEST002 first, exactly two of them with a callsign starting with TEST,
\* all callsigns different; a colliding callsign is never inserted.
C5_TwentyDistinctTwoFixed ==
    /\ pc \in {"gen_loop", "generated"} =>
          /\ Len(planes) = g
          /\ planes[1].callsign = Str_TEST001
          /\ planes[2].callsign = Str_TEST002
          /\ \A x, y \in 1..Len(planes) :
                x # y => planes[x].callsign # planes[y].callsign
          /\ used_callsigns = CallsignsOf(planes)
          /\ Cardinality({x \in 1..Len(planes) :
                              starts_with(planes[x].callsign, Str_TEST)}) = 2
    /\ pc = "generated" => Len(planes) = 20

\* generate_demo_airplanes returned after a draw collided, with a random
\* callsign that shares three letters with the fixed ones.
C5_Witness ==
    /\ pc = "generated"
    /\ retries > 0
    /\ \E x \in 3..Len(planes) :
          SubSeq(planes[x].callsign, 1, 3) = <<"T", "E", "S">>

\* C6 (as amended): calculate_airplane_positions is over after n steps,
\* one per aircraft, and check_all_alerts after n(n-1)/2 pair checks;
\* generate_demo_airplanes is over after 18 callsign draws and one more for
\* every draw that collided, and a new callsign can always be drawn.
C6_StepsByInputSizeAndCollisions ==
    /\ pc = "advance" => (k <= Len(planes) /\ Len(out) = k)
    /\ pc = "scan" =>
          /\ 2 * Len(checked) <= Len(planes) * (Len(planes) - 1)
          /\ i >= Len(planes) =>
                2 * Len(checked) = Len(planes) * (Len(planes) - 1)
    /\ pc = "gen_loop" =>
          /\ draws = (g - 2) + retries
          /\ g <= NUM_DEMO_PLANES
          /\ g < NUM_DEMO_PLANES =>
                \E o \in RngOutcomes(g) :
                    RandomCallsign(o) \notin used_callsigns
    /\ pc = "generated" => draws = 18 + retries

\* generate_demo_airplanes returned after 20 draws, two of which collided.
C6_Witness ==
    /\ pc = "generated"
    /\ draws = 20
    /\ retries = 2

\* C6 (as claimed): the steps of every operation are determined by the size
\* of its input alone: generate_demo_airplanes is over after 18 draws.
C6_StepsByInputSizeAlone ==
    /\ pc = "advance" => (k <= Len(planes) /\ Len(out) = k)
    /\ (pc = "scan" /\ i >= Len(planes)) =>
          2 * Len(checked) = Len(planes) * (Len(planes) - 1)
    /\ pc = "generated" => draws = NUM_DEMO_PLANES - 2

\* |x - 1.0| < 0.1
NearOne(x) == FLt(FAbs(FSub(x, FOne)), Lit(1, -1))

IsMeridianCall(offset) ==
    /\ pc = "returned" /\ args.fn = "haversine_distance_nm"
    /\ args.lng1 = args.lng2
    /\ args.lat2 = FAdd(args.lat1, offset)

\* C7 (as claimed): for (lat, lng) and (lat + 0.01376, lng),
\* haversine_distance_nm is within 0.1 of 1.0 nm.
C7_Offset01376NearOne ==
    IsMeridianCall(Lit(1376, -5)) => NearOne(ret[1])

\* C7 (as amended): for (lat, lng) and (lat + 0.015, lng), the offset of
\* test_haversine_distance_calculation, haversine_distance_nm is within 0.1
\* of 1.0 nm.
C7_Offset015NearOne ==
    IsMeridianCall(Lit(15, -3)) => NearOne(ret[1])

\* The call of test_haversine_distance_calculation has returned.
C7_Witness ==
    /\ IsMeridianCall(Lit(15, -3))
    /\ args.lat1 = Lit(48250000, -6)
    /\ args.lng1 = Lit(14191473, -6)
    /\ ret # None

\* The aircraft of callsign c in ps.
PlaneOf(ps, c) == ps[CHOOSE x \in 1..Len(ps) : ps[x].callsign = c]
HasAlert(as, c1, c2) ==
    \E x \in 1..Len(as) :
        as[x].plane1_callsign = c1 /\ as[x].plane2_callsign = c2

\* C8: two scans of the same snapshot return the same alerts, whatever was
\* scanned before; a pair reported by one scan and still in conflict in the
\* snapshot of a later one is reported by that one again.
C8_ScanDependsOnSnapshotOnly ==
    \A s1, s2 \in 1..Len(scans) :
        /\ scans[s1].snapshot = scans[s2].snapshot =>
              scans[s1].alerts = scans[s2].alerts
        /\ s1 < s2 =>
              \A x \in 1..Len(scans[s1].alerts) :
                  LET c1 == scans[s1].alerts[x].plane1_callsign
                      c2 == scans[s1].alerts[x].plane2_callsign
                  IN  check_alert_between_planes(
                          PlaneOf(scans[s2].snapshot, c1),
                          PlaneOf(scans[s2].snapshot, c2)) # None
                      => HasAlert(scans[s2].alerts, c1, c2)

\* A conflict was reported by the scans of two different snapshots.
C8_Witness ==
    /\ Len(scans) = 2
    /\ scans[1].snapshot # scans[2].snapshot
    /\ \E x \in 1..Len(scans[1].alerts) :
          HasAlert(scans[2].alerts, scans[1].alerts[x].plane1_callsign,
                   scans[1].alerts[x].plane2_callsign)

\* C9: the new latitude is the old one plus
\* (speed * elapsed / 3600 / 60) * cos(heading), the new longitude the old
\* one plus (speed * elapsed / 3600 / 60) * sin(heading) / cos(latitude),
\* neither wrapped nor clamped; a heading of 0 leaves the longitude as it
\* is and adds distance / 60 to the latitude.
C9_FlatEarthOffsetsUnclamped ==
    pc = "advance" =>
        \A x \in 1..Len(out) :
            LET p == planes[x]
                deg == FDiv(FDiv(FMul(p.speed_kn, elapsed_seconds),
                                 Lit(3600, 0)), Lit(60, 0))
                hdg == to_radians(p.heading_deg)
            IN  /\ out[x].latitude = FAdd(p.latitude, FMul(deg, FCos(hdg)))
                /\ out[x].longitude =
                       FAdd(p.longitude,
                            FDiv(FMul(deg, FSin(hdg)),
                                 FCos(to_radians(p.latitude))))
                /\ p.heading_deg = FZero =>
                       /\ out[x].longitude = p.longitude
                       /\ out[x].latitude = FAdd(p.latitude, deg)

\* After two calls an aircraft heading east is beyond 180 degrees of
\* longitude, and further so than after one.
C9_Witness ==
    /\ pc = "advance" /\ ops = 2 /\ k = Len(planes)
    /\ \E x \in 1..Len(out) :
          /\ FLe(planes0[x].longitude, Lit(180, 0))
          /\ FLt(Lit(180, 0), planes[x].longitude)
          /\ FLt(planes[x].longitude, out[x].longitude)

\* The latitude of TEST001, which flies south, is below that of TEST002,
\* which flies north, and the two are more than 5 nm apart.
CrossedAndApart(ps) ==
    /\ FLt(ps[1].latitude, ps[2].latitude)
    /\ FLt(Lit(5, 0), DistanceOf(ps[1], ps[2]))

FixedAlert(as) == HasAlert(as, Str_TEST001, Str_TEST002)

\* At tick 0 no alert between TEST001 and TEST002 is reported.
NoAlertAtTickZero == ~FixedAlert(scans[1].alerts)

\* The scan of a snapshot in which the two are <= 5 nm apart reports them.
AlertWhileClose(s) ==
    FLe(DistanceOf(s.snapshot[1], s.snapshot[2]), Lit(5, 0))
        => FixedAlert(s.alerts)

\* Once a scan has seen the two crossed and more than 5 nm apart, the
\* latest scan reports no alert between them.
NoAlertAfterParting ==
    (\E s \in 1..(Len(scans) - 1) : CrossedAndApart(scans[s].snapshot))
        => ~FixedAlert(scans[Len(scans)].alerts)

====
